---------------------------- MODULE Spec2Model ----------------------------
(***************************************************************************)
(* State-machine model of rusty-chip8 (src/src/main.rs): the CPU struct,   *)
(* CPU::initialize, CPU::emulate_cycle and the driving loop of main.       *)
(*                                                                         *)
(* One loop iteration of main is four steps, taken in order:               *)
(*   poll    - the while condition and window.get_keys() (lines 496-519)    *)
(*   cycle   - cpu.emulate_cycle()                      (line 522)          *)
(*   present - copy gfx to buffer, update_with_buffer   (lines 524-533)     *)
(*   tick    - timer decrement and key reset            (lines 535-546)     *)
(* A process that called process::exit, panicked, or is caught in the      *)
(* FX0A busy loop takes no further step.                                   *)
(***************************************************************************)
EXTENDS Integers, Sequences, FiniteSets, TLC

VARIABLES
    cpu,      \* the CPU struct (lines 11-41)
    buffer,   \* main's presentation buffer (line 494)
    phase,    \* position of main inside the loop body
    status    \* "running", "exit", "panic" or "spin"

vars == <<cpu, buffer, phase, status>>

---------------------------------------------------------------------------
(* Machine arithmetic *)

RECURSIVE BitAnd(_, _)
BitAnd(a, b) ==
    IF a = 0 \/ b = 0 THEN 0
    ELSE (IF a % 2 = 1 /\ b % 2 = 1 THEN 1 ELSE 0) + 2 * BitAnd(a \div 2, b \div 2)

RECURSIVE BitOr(_, _)
BitOr(a, b) ==
    IF a = 0 THEN b
    ELSE IF b = 0 THEN a
    ELSE (IF a % 2 = 1 \/ b % 2 = 1 THEN 1 ELSE 0) + 2 * BitOr(a \div 2, b \div 2)

RECURSIVE BitXor(_, _)
BitXor(a, b) ==
    IF a = 0 THEN b
    ELSE IF b = 0 THEN a
    ELSE (IF a % 2 # b % 2 THEN 1 ELSE 0) + 2 * BitXor(a \div 2, b \div 2)

Shr(a, n) == a \div (2 ^ n)

AsU8(a) == a % 256

AsU16(a) == a % 65536

---------------------------------------------------------------------------
(* Sizes fixed by the CPU struct and by main *)

MemSize == 4096

StackSize == 16

width == 64

height == 32

GfxSize == width * height

(* The two u32 colours of main (lines 492-493).  u32::MAX is written as   *)
(* the same 32 bits read as a signed 32-bit integer.                      *)
pixel_color_white == -1

pixel_color_black == 0

start_loc == \h50

ProgramBase == 512

chip8_fontset ==
    << \hF0, \h90, \h90, \h90, \hF0,
       \h20, \h60, \h20, \h20, \h70,
       \hF0, \h10, \hF0, \h80, \hF0,
       \hF0, \h10, \hF0, \h10, \hF0,
       \h90, \h90, \hF0, \h10, \h10,
       \hF0, \h80, \hF0, \h10, \hF0,
       \hF0, \h80, \hF0, \h90, \hF0,
       \hF0, \h10, \h20, \h40, \h40,
       \hF0, \h90, \hF0, \h90, \hF0,
       \hF0, \h90, \hF0, \h10, \hF0,
       \hF0, \h90, \hF0, \h90, \h90,
       \hE0, \h90, \hE0, \h90, \hE0,
       \hF0, \h80, \h80, \h80, \hF0,
       \hE0, \h90, \h90, \h90, \hE0,
       \hF0, \h80, \hF0, \h80, \hF0,
       \hF0, \h80, \hF0, \h80, \h80 >>

(* CPU::initialize: the program bytes go to 512.., then the font to 0x50.. *)
initialize(bytes, gfx) ==
    LET loaded == [a \in 0..(MemSize - 1) |->
                     IF a >= ProgramBase /\ a < ProgramBase + Len(bytes)
                     THEN bytes[a - ProgramBase + 1] ELSE 0]
        memory == [a \in 0..(MemSize - 1) |->
                     IF a >= start_loc /\ a < start_loc + Len(chip8_fontset)
                     THEN chip8_fontset[a - start_loc + 1] ELSE loaded[a]]
    IN [opcode |-> 0,
        memory |-> memory,
        gfx |-> gfx,
        V |-> [r \in 0..15 |-> 0],
        I |-> 0,
        pc |-> \h200,
        stack |-> [s \in 0..(StackSize - 1) |-> 0],
        sp |-> 0,
        k |-> 0,
        delay_timer |-> 0,
        sound_timer |-> 0]

---------------------------------------------------------------------------
(* Outcomes of one emulate_cycle call: the CPU it leaves and how it ended *)

Running(c) == {[cpu |-> c, st |-> "running"]}

Panicked(c) == {[cpu |-> c, st |-> "panic"]}

Exited(c) == {[cpu |-> c, st |-> "exit"]}

Spinning(c) == {[cpu |-> c, st |-> "spin"]}

(* Operand fields of the fetched opcode *)
VXof(c) == Shr(BitAnd(c.opcode, \h0F00), 8)

VYof(c) == Shr(BitAnd(c.opcode, \h00F0), 4)

Nof(c) == BitAnd(c.opcode, \h000F)

NNof(c) == BitAnd(c.opcode, \h00FF)

NNNof(c) == BitAnd(c.opcode, \h0FFF)

---------------------------------------------------------------------------
(* CPU::emulate_cycle, one operator per match arm.  Each takes the CPU with *)
(* self.opcode already fetched and yields the set of possible outcomes.     *)

(* 00E0 (lines 119-125) *)
op_00E0(c) ==
    Running([c EXCEPT !.gfx = [i \in DOMAIN c.gfx |-> 0], !.pc = c.pc + 2])

(* 00EE resuming one byte, not one word, past the saved address *)
op_00EE_next_byte(c) ==
    IF c.sp = 0
    THEN Panicked(c) \cup Panicked([c EXCEPT !.sp = 255])
    ELSE Running([c EXCEPT !.sp = c.sp - 1, !.pc = c.stack[c.sp - 1] + 1])

(* 00EE (lines 127-131).  self.sp -= 1 on sp = 0 panics in a build with     *)
(* overflow checks; without them sp wraps to 255 and stack[255] panics.     *)
op_00EE(c) ==
    IF c.sp = 0
    THEN Panicked(c) \cup Panicked([c EXCEPT !.sp = 255])
    ELSE Running([c EXCEPT !.sp = c.sp - 1, !.pc = c.stack[c.sp - 1] + 2])

(* 0NNN (lines 133-137) *)
op_0NNN(c) == Exited(c)

(* The 0x0000 family dispatches on the low byte (line 117) *)
op_0(c) ==
    CASE BitAnd(c.opcode, \h00FF) = \h00E0 -> op_00E0(c)
      [] BitAnd(c.opcode, \h00FF) = \h00EE -> op_00EE(c)
      [] OTHER -> op_0NNN(c)

(* 1NNN (lines 140-143) *)
op_1NNN(c) == Running([c EXCEPT !.pc = NNNof(c)])

(* 2NNN on a stack that wraps around instead of failing when full *)
op_2NNN_wrapping(c) ==
    Running([c EXCEPT !.stack[c.sp % StackSize] = c.pc,
                      !.sp = (c.sp % StackSize) + 1, !.pc = NNNof(c)])

(* 2NNN saving the address of the next instruction instead of its own *)
op_2NNN_push_next(c) ==
    IF c.sp >= StackSize
    THEN Panicked(c)
    ELSE Running([c EXCEPT !.stack[c.sp] = c.pc + 2, !.sp = c.sp + 1,
                           !.pc = NNNof(c)])

(* 2NNN (lines 145-151): stack[sp] with sp = 16 is out of bounds *)
op_2NNN(c) ==
    IF c.sp >= StackSize
    THEN Panicked(c)
    ELSE Running([c EXCEPT !.stack[c.sp] = c.pc, !.sp = c.sp + 1, !.pc = NNNof(c)])

(* 3XNN (lines 153-160) *)
op_3XNN(c) ==
    IF c.V[VXof(c)] = AsU8(NNof(c))
    THEN Running([c EXCEPT !.pc = c.pc + 4])
    ELSE Running([c EXCEPT !.pc = c.pc + 2])

(* 4XNN (lines 162-169) *)
op_4XNN(c) ==
    IF c.V[VXof(c)] # AsU8(NNof(c))
    THEN Running([c EXCEPT !.pc = c.pc + 4])
    ELSE Running([c EXCEPT !.pc = c.pc + 2])

(* 6XNN (lines 171-176) *)
op_6XNN(c) ==
    Running([c EXCEPT !.V[VXof(c)] = AsU8(NNof(c)), !.pc = c.pc + 2])

(* 7XNN (lines 178-183) *)
op_7XNN(c) ==
    Running([c EXCEPT !.V[VXof(c)] = AsU8(c.V[VXof(c)] + NNof(c)), !.pc = c.pc + 2])

(* 8XY0 (lines 186-192) *)
op_8XY0(c) ==
    Running([c EXCEPT !.V[VXof(c)] = c.V[VYof(c)], !.pc = c.pc + 2])

(* 8XY1 (lines 194-199): VX and VY are the opcode nibbles here *)
op_8XY1(c) ==
    Running([c EXCEPT !.V[VXof(c)] = AsU8(BitOr(VXof(c), VYof(c))), !.pc = c.pc + 2])

(* 8XY2 (lines 201-206) *)
op_8XY2(c) ==
    Running([c EXCEPT !.V[VXof(c)] = BitAnd(c.V[VXof(c)], c.V[VYof(c)]),
                      !.pc = c.pc + 2])

(* 8XY3 (lines 208-213): VX and VY are the opcode nibbles here *)
op_8XY3(c) ==
    Running([c EXCEPT !.V[VXof(c)] = AsU8(BitXor(VXof(c), VYof(c))), !.pc = c.pc + 2])

(* 8XY4 with the two stores swapped: V[X] first, then the flag *)
op_8XY4_flag_last(c) ==
    LET add == c.V[VXof(c)] + c.V[VYof(c)]
        stored == [c.V EXCEPT ![VXof(c)] = AsU8(add)]
    IN Running([c EXCEPT !.V = [stored EXCEPT ![15] = IF add > 255 THEN 1 ELSE 0],
                         !.pc = c.pc + 2])

(* 8XY4 (lines 216-227): the flag is written first, then V[X] *)
op_8XY4(c) ==
    LET add == c.V[VXof(c)] + c.V[VYof(c)]
        flagged == [c.V EXCEPT ![15] = IF add > 255 THEN 1 ELSE 0]
    IN Running([c EXCEPT !.V = [flagged EXCEPT ![VXof(c)] = AsU8(add)],
                         !.pc = c.pc + 2])

(* 8XY5 reporting a borrow also when the two values are equal *)
op_8XY5_strict(c) ==
    LET sub == c.V[VXof(c)] - c.V[VYof(c)]
        flagged == [c.V EXCEPT ![15] = IF sub <= 0 THEN 0 ELSE 1]
    IN Running([c EXCEPT !.V = [flagged EXCEPT ![VXof(c)] = AsU8(sub + 256)],
                         !.pc = c.pc + 2])

(* 8XY5 (lines 230-241): sub is an i16; sub as u8 keeps the low byte *)
op_8XY5(c) ==
    LET sub == c.V[VXof(c)] - c.V[VYof(c)]
        flagged == [c.V EXCEPT ![15] = IF sub < 0 THEN 0 ELSE 1]
    IN Running([c EXCEPT !.V = [flagged EXCEPT ![VXof(c)] = AsU8(sub + 256)],
                         !.pc = c.pc + 2])

(* 8XY6 (lines 244-256): the code shifts V[Y] left and leaves VF alone *)
op_8XY6(c) ==
    Running([c EXCEPT !.V[VXof(c)] = AsU8(c.V[VYof(c)] * 2), !.pc = c.pc + 2])

(* 8XY7 (lines 259-262) and every other 8XYN (lines 263-267) *)
op_8XY7(c) == Exited(c)

op_8XYN(c) == Exited(c)

(* The 0x8000 family dispatches on the low nibble (line 184) *)
op_8(c) ==
    CASE Nof(c) = 0 -> op_8XY0(c)
      [] Nof(c) = 1 -> op_8XY1(c)
      [] Nof(c) = 2 -> op_8XY2(c)
      [] Nof(c) = 3 -> op_8XY3(c)
      [] Nof(c) = 4 -> op_8XY4(c)
      [] Nof(c) = 5 -> op_8XY5(c)
      [] Nof(c) = 6 -> op_8XY6(c)
      [] Nof(c) = 7 -> op_8XY7(c)
      [] OTHER -> op_8XYN(c)

(* 9XY0 (lines 271-280): the low nibble is not inspected *)
op_9XY0(c) ==
    IF c.V[VXof(c)] # c.V[VYof(c)]
    THEN Running([c EXCEPT !.pc = c.pc + 4])
    ELSE Running([c EXCEPT !.pc = c.pc + 2])

(* ANNN (lines 282-285) *)
op_ANNN(c) == Running([c EXCEPT !.I = NNNof(c), !.pc = c.pc + 2])

(* CXNN (lines 288-298): gen_range(0, 255) draws from 0..254 *)
op_CXNN(c) ==
    UNION {Running([c EXCEPT !.V[VXof(c)] = AsU8(BitAnd(num, NNof(c))),
                             !.pc = c.pc + 2]) : num \in 0..254}

(* DXYN, inner loop (lines 313-321): bits j..7 of one sprite row.  Yields *)
(* the CPU after the row and whether gfx[loc] stayed inside the buffer.    *)
RECURSIVE draw_row(_, _, _, _, _, _)
draw_row(c, pixel, x, y, i, j) ==
    IF j = 8 THEN [cpu |-> c, ok |-> TRUE]
    ELSE IF BitAnd(pixel, Shr(\h80, j)) # 0
    THEN LET loc == x + j + ((y + i) * 64)
         IN IF loc \notin DOMAIN c.gfx
            THEN [cpu |-> c, ok |-> FALSE]
            ELSE LET hit == IF c.gfx[loc] = 1
                            THEN [c EXCEPT !.V[15] = 1] ELSE c
                     xored == [hit EXCEPT !.gfx[loc] = BitXor(c.gfx[loc], 1)]
                 IN draw_row(xored, pixel, x, y, i, j + 1)
    ELSE draw_row(c, pixel, x, y, i, j + 1)

(* DXYN, outer loop (lines 310-322): rows i..n-1, then pc += 2 *)
RECURSIVE draw_rows(_, _, _, _, _)
draw_rows(c, x, y, n, i) ==
    IF i = n THEN Running([c EXCEPT !.pc = c.pc + 2])
    ELSE IF c.I + i >= MemSize THEN Panicked(c)
    ELSE LET row == draw_row(c, c.memory[c.I + i], x, y, i, 0)
         IN IF row.ok THEN draw_rows(row.cpu, x, y, n, i + 1)
            ELSE Panicked(row.cpu)

(* DXYN without the store that clears VF before the loop *)
op_DXYN_keep_flag(c) ==
    draw_rows(c, c.V[VXof(c)], c.V[VYof(c)], Nof(c), 0)

(* DXYN (lines 300-328): x and y are read before VF is cleared *)
op_DXYN(c) ==
    LET x == c.V[VXof(c)]
        y == c.V[VYof(c)]
    IN draw_rows([c EXCEPT !.V[15] = 0], x, y, Nof(c), 0)

(* EX9E (lines 334-341): VX is the opcode nibble here *)
op_EX9E(c) ==
    IF AsU8(VXof(c)) = c.k
    THEN Running([c EXCEPT !.pc = c.pc + 4])
    ELSE Running([c EXCEPT !.pc = c.pc + 2])

(* EXA1 (lines 345-352): VX is the opcode nibble here *)
op_EXA1(c) ==
    IF AsU8(VXof(c)) # c.k
    THEN Running([c EXCEPT !.pc = c.pc + 4])
    ELSE Running([c EXCEPT !.pc = c.pc + 2])

(* EXNN otherwise (lines 353-357) *)
op_EXNN(c) == Exited(c)

(* The 0xE000 family dispatches on the low byte (line 330) *)
op_E(c) ==
    CASE NNof(c) = \h9E -> op_EX9E(c)
      [] NNof(c) = \hA1 -> op_EXA1(c)
      [] OTHER -> op_EXNN(c)

(* FX0A (lines 366-374): the while loop never ends once entered, since    *)
(* nothing inside it changes self.k                                       *)
op_FX0A(c) ==
    IF c.k = \hFF
    THEN Spinning(c)
    ELSE Running([c EXCEPT !.V[VXof(c)] = c.k, !.pc = c.pc + 2])

(* FX1E (lines 376-381): self.I += inc overflows u16 above 65535: a panic *)
(* with overflow checks, a wrapped sum without                            *)
op_FX1E(c) ==
    LET sum == c.I + c.V[VXof(c)]
    IN IF sum > 65535
       THEN Panicked(c) \cup Running([c EXCEPT !.I = AsU16(sum), !.pc = c.pc + 2])
       ELSE Running([c EXCEPT !.I = sum, !.pc = c.pc + 2])

(* FX07 (lines 384-388) *)
op_FX07(c) ==
    Running([c EXCEPT !.V[VXof(c)] = c.delay_timer, !.pc = c.pc + 2])

(* FX15 (lines 390-394) *)
op_FX15(c) ==
    Running([c EXCEPT !.delay_timer = c.V[VXof(c)], !.pc = c.pc + 2])

(* FX18 (lines 396-400) *)
op_FX18(c) ==
    Running([c EXCEPT !.sound_timer = c.V[VXof(c)], !.pc = c.pc + 2])

(* FX29 (lines 402-406): the address is 0x50 + V[X] *)
op_FX29(c) ==
    Running([c EXCEPT !.I = \h50 + c.V[VXof(c)], !.pc = c.pc + 2])

(* FX33 storing V[X] / 10 as the tens digit, without the % 10 *)
op_FX33_tens_undivided(c) ==
    LET v == c.V[VXof(c)]
        m1 == [c EXCEPT !.memory[c.I] = v \div 100]
        m2 == [m1 EXCEPT !.memory[c.I + 1] = v \div 10]
        m3 == [m2 EXCEPT !.memory[c.I + 2] = (v % 100) % 10]
    IN IF c.I >= MemSize THEN Panicked(c)
       ELSE IF c.I + 1 >= MemSize THEN Panicked(m1)
       ELSE IF c.I + 2 >= MemSize THEN Panicked(m2)
       ELSE Running([m3 EXCEPT !.pc = c.pc + 2])

(* FX33 (lines 411-418): three stores in order, each bounds-checked *)
op_FX33(c) ==
    LET v == c.V[VXof(c)]
        m1 == [c EXCEPT !.memory[c.I] = v \div 100]
        m2 == [m1 EXCEPT !.memory[c.I + 1] = (v \div 10) % 10]
        m3 == [m2 EXCEPT !.memory[c.I + 2] = (v % 100) % 10]
    IN IF c.I >= MemSize THEN Panicked(c)
       ELSE IF c.I + 1 >= MemSize THEN Panicked(m1)
       ELSE IF c.I + 2 >= MemSize THEN Panicked(m2)
       ELSE Running([m3 EXCEPT !.pc = c.pc + 2])

(* FX55 (lines 422-431): stores V[x..VX] from x on, each bounds-checked *)
RECURSIVE store_regs(_, _, _)
store_regs(c, VX, x) ==
    IF x = VX + 1 THEN Running([c EXCEPT !.pc = c.pc + 2])
    ELSE IF c.I + x >= MemSize THEN Panicked(c)
    ELSE store_regs([c EXCEPT !.memory[c.I + x] = c.V[x]], VX, x + 1)

op_FX55(c) == store_regs(c, VXof(c), 0)

(* FX65 (lines 434-443): loads V[x..VX] from x on, each bounds-checked *)
RECURSIVE load_regs(_, _, _)
load_regs(c, VX, x) ==
    IF x = VX + 1 THEN Running([c EXCEPT !.pc = c.pc + 2])
    ELSE IF c.I + x >= MemSize THEN Panicked(c)
    ELSE load_regs([c EXCEPT !.V[x] = AsU8(c.memory[c.I + x])], VX, x + 1)

op_FX65(c) == load_regs(c, VXof(c), 0)

(* FXNN otherwise (lines 444-448) *)
op_FXNN(c) == Exited(c)

(* The 0xF000 family dispatches on the low byte (line 362) *)
op_F(c) ==
    CASE NNof(c) = \h0A -> op_FX0A(c)
      [] NNof(c) = \h1E -> op_FX1E(c)
      [] NNof(c) = \h07 -> op_FX07(c)
      [] NNof(c) = \h15 -> op_FX15(c)
      [] NNof(c) = \h18 -> op_FX18(c)
      [] NNof(c) = \h29 -> op_FX29(c)
      [] NNof(c) = \h33 -> op_FX33(c)
      [] NNof(c) = \h55 -> op_FX55(c)
      [] NNof(c) = \h65 -> op_FX65(c)
      [] OTHER -> op_FXNN(c)

(* Every other high nibble: 5XY0 and BNNN have no arm (lines 452-456) *)
op_default(c) == Exited(c)

(* The fetch (lines 102-105): memory[pc] and memory[pc + 1] are bounds-    *)
(* checked reads; the two cells are joined big-endian in a u16             *)
fetch(c) ==
    AsU16(BitOr(AsU16(c.memory[c.pc] * 256), c.memory[c.pc + 1]))

(* The dispatch on the high nibble (lines 107, 116) *)
execute(c) ==
    LET decode == BitAnd(c.opcode, \hF000)
    IN CASE decode = \h0000 -> op_0(c)
         [] decode = \h1000 -> op_1NNN(c)
         [] decode = \h2000 -> op_2NNN(c)
         [] decode = \h3000 -> op_3XNN(c)
         [] decode = \h4000 -> op_4XNN(c)
         [] decode = \h6000 -> op_6XNN(c)
         [] decode = \h7000 -> op_7XNN(c)
         [] decode = \h8000 -> op_8(c)
         [] decode = \h9000 -> op_9XY0(c)
         [] decode = \hA000 -> op_ANNN(c)
         [] decode = \hC000 -> op_CXNN(c)
         [] decode = \hD000 -> op_DXYN(c)
         [] decode = \hE000 -> op_E(c)
         [] decode = \hF000 -> op_F(c)
         [] OTHER -> op_default(c)

(* CPU::emulate_cycle (lines 99-458) *)
emulate_cycle(c) ==
    IF c.pc + 1 >= MemSize
    THEN Panicked(c)
    ELSE execute([c EXCEPT !.opcode = fetch(c)])

---------------------------------------------------------------------------
(* main: the driving loop (lines 496-547) *)

(* The match on one reported key (lines 499-517) *)
key_code(t) ==
    CASE t = "Key1" -> \h0
      [] t = "Key2" -> \h1
      [] t = "Key3" -> \h2
      [] t = "Key4" -> \h3
      [] t = "Q" -> \h4
      [] t = "W" -> \h5
      [] t = "E" -> \h6
      [] t = "R" -> \h7
      [] t = "A" -> \h8
      [] t = "S" -> \h9
      [] t = "D" -> \hA
      [] t = "F" -> \hB
      [] t = "Z" -> \hC
      [] t = "X" -> \hD
      [] t = "C" -> \hE
      [] t = "V" -> \hF
      [] OTHER -> \hFF

(* for t in keys (line 498): every reported key overwrites cpu.k in turn *)
RECURSIVE latch_keys(_, _)
latch_keys(k, keys) ==
    IF keys = <<>> THEN k
    ELSE latch_keys(key_code(Head(keys)), Tail(keys))

(* window.get_keys().map(...) (lines 497-519): None leaves cpu.k alone *)
get_keys_map(k, got) ==
    IF got.some THEN latch_keys(k, got.keys) ELSE k

(* The copy of gfx into buffer (lines 524-530) *)
present(gfx) ==
    [index \in DOMAIN gfx |->
        IF gfx[index] = 1 THEN pixel_color_white ELSE pixel_color_black]

(* The timer decrement without its > 0 guards: a u8 that wraps below zero *)
tick_wrapping(c) ==
    [c EXCEPT !.delay_timer = AsU8(c.delay_timer + 255),
              !.sound_timer = AsU8(c.sound_timer + 255),
              !.k = \hFF]

(* The timer decrement and the key reset (lines 535-546) *)
tick(c) ==
    [c EXCEPT !.delay_timer = IF c.delay_timer > 0 THEN c.delay_timer - 1
                              ELSE c.delay_timer,
              !.sound_timer = IF c.sound_timer > 0 THEN c.sound_timer - 1
                              ELSE c.sound_timer,
              !.k = \hFF]

---------------------------------------------------------------------------
(* What the window reports in one iteration *)

MaxKeysDown == 2

KeySample == {"W", "Space"}

KeyVectors ==
    UNION {[1..n -> KeySample] : n \in 0..MaxKeysDown}

KeyReports ==
    {[some |-> FALSE, keys |-> <<>>]} \cup
    {[some |-> TRUE, keys |-> ks] : ks \in KeyVectors}

---------------------------------------------------------------------------
(* Actions *)

(* The while condition is false (line 496): main ends in process::exit *)
Quit ==
    /\ status = "running"
    /\ phase = "poll"
    /\ status' = "exit"
    /\ UNCHANGED <<cpu, buffer, phase>>

PollKeys ==
    /\ status = "running"
    /\ phase = "poll"
    /\ \E got \in KeyReports :
          cpu' = [cpu EXCEPT !.k = get_keys_map(cpu.k, got)]
    /\ phase' = "cycle"
    /\ UNCHANGED <<buffer, status>>

EmulateCycle ==
    /\ status = "running"
    /\ phase = "cycle"
    /\ \E r \in emulate_cycle(cpu) :
          /\ cpu' = r.cpu
          /\ status' = r.st
          /\ phase' = IF r.st = "running" THEN "present" ELSE phase
    /\ UNCHANGED buffer

(* update_with_buffer(...).unwrap() (line 533) panics when the window fails *)
Present ==
    /\ status = "running"
    /\ phase = "present"
    /\ buffer' = present(cpu.gfx)
    /\ \E shown \in BOOLEAN :
          IF shown
          THEN phase' = "tick" /\ status' = status
          ELSE phase' = phase /\ status' = "panic"
    /\ UNCHANGED cpu

Tick ==
    /\ status = "running"
    /\ phase = "tick"
    /\ cpu' = tick(cpu)
    /\ phase' = "poll"
    /\ UNCHANGED <<buffer, status>>

Next == Quit \/ PollKeys \/ EmulateCycle \/ Present \/ Tick

---------------------------------------------------------------------------
(* Program images.  A program is a sequence of 16-bit words; the file holds *)
(* them big-endian.                                                        *)

FileBytes(ws) ==
    [b \in 1..(2 * Len(ws)) |->
        IF b % 2 = 1 THEN ws[(b + 1) \div 2] \div 256 ELSE ws[b \div 2] % 256]

Word(hi, x, y, n) == hi * 4096 + x * 256 + y * 16 + n

WordNN(hi, x, nn) == hi * 4096 + x * 256 + nn

WordNNN(hi, nnn) == hi * 4096 + nnn

AddrOf(i) == ProgramBase + 2 * i

(* The state main builds before the loop (lines 473-494) for one file *)
Boot(ws) ==
    /\ cpu = initialize(FileBytes(ws), [i \in 0..(GfxSize - 1) |-> 0])
    /\ buffer = [i \in 0..(GfxSize - 1) |-> pixel_color_black]
    /\ phase = "poll"
    /\ status = "running"

(* The step being taken is a call of emulate_cycle that returned *)
Completed ==
    /\ status = "running" /\ phase = "cycle"
    /\ status' = "running" /\ phase' = "present"

(* The nibbles of an instruction word *)
Hi(w) == w \div 4096

Xn(w) == (w \div 256) % 16

Yn(w) == (w \div 16) % 16

Nn(w) == w % 16

---------------------------------------------------------------------------
(* Arithmetic and logic programs: two register loads, one 8XYN, then a    *)
(* jump to itself                                                         *)

RegPairs == {<<0, 2>>, <<2, 2>>, <<15, 2>>, <<2, 15>>}

BytePairs ==
    {<<255, 1>>, <<5, 10>>, <<10, 5>>, <<0, 0>>, <<255, 255>>, <<255, 0>>,
     <<1, 127>>, <<240, 60>>}

ALUOps == {0, 1, 2, 3, 4, 5, 6, 7, 14}

ProgramsALU ==
    {<<WordNN(6, r[1], v[1]), WordNN(6, r[2], v[2]), Word(8, r[1], r[2], n),
       WordNNN(1, AddrOf(3))>> :
        <<r, v, n>> \in RegPairs \X BytePairs \X ALUOps}

InitALU == \E ws \in ProgramsALU : Boot(ws)

SpecALU == InitALU /\ [][Next]_vars

(* C4 as claimed: 8XY1, 8XY2 and 8XY3 set V[X] to the bitwise OR, AND and  *)
(* XOR of the old register values V[X] and V[Y], leave every other        *)
(* register unchanged and advance PC by 2.                                *)
C4_BitwiseOnValues ==
    [][(Completed /\ Hi(cpu'.opcode) = 8 /\ Nn(cpu'.opcode) \in {1, 2, 3}) =>
        LET w == cpu'.opcode
            a == cpu.V[Xn(w)]
            b == cpu.V[Yn(w)]
            res == CASE Nn(w) = 1 -> BitOr(a, b)
                     [] Nn(w) = 2 -> BitAnd(a, b)
                     [] Nn(w) = 3 -> BitXor(a, b)
        IN /\ cpu'.V = [cpu.V EXCEPT ![Xn(w)] = res]
           /\ cpu'.pc = cpu.pc + 2]_vars

(* C10: after 8XY4, V[X] = (old V[X] + old V[Y]) mod 256; when X is not   *)
(* 0xF, VF = 1 if the sum exceeds 255 and 0 otherwise; registers other    *)
(* than V[X] and VF are unchanged.                                        *)
C10_AddWithCarry ==
    [][(Completed /\ Hi(cpu'.opcode) = 8 /\ Nn(cpu'.opcode) = 4) =>
        LET w == cpu'.opcode
            sum == cpu.V[Xn(w)] + cpu.V[Yn(w)]
        IN /\ cpu'.V[Xn(w)] = sum % 256
           /\ Xn(w) # 15 => cpu'.V[15] = (IF sum > 255 THEN 1 ELSE 0)
           /\ \A r \in 0..15 : r \notin {Xn(w), 15} => cpu'.V[r] = cpu.V[r]]_vars

(* An 8XY4 has run on 0xFF + 0x01: V[X] wrapped to 0 and VF holds the carry *)
C10_Witness ==
    /\ status = "running" /\ phase = "present"
    /\ Hi(cpu.opcode) = 8 /\ Nn(cpu.opcode) = 4 /\ Xn(cpu.opcode) = 0
    /\ cpu.V[0] = 0 /\ cpu.V[2] = 1 /\ cpu.V[15] = 1

(* C11: after 8XY5, V[X] = (old V[X] - old V[Y]) mod 256; when X is not    *)
(* 0xF, VF = 1 if old V[X] >= old V[Y] (no borrow) and 0 otherwise;        *)
(* registers other than V[X] and VF are unchanged.                        *)
C11_SubWithBorrow ==
    [][(Completed /\ Hi(cpu'.opcode) = 8 /\ Nn(cpu'.opcode) = 5) =>
        LET w == cpu'.opcode
            a == cpu.V[Xn(w)]
            b == cpu.V[Yn(w)]
        IN /\ cpu'.V[Xn(w)] = (a - b + 256) % 256
           /\ Xn(w) # 15 => cpu'.V[15] = (IF a >= b THEN 1 ELSE 0)
           /\ \A r \in 0..15 : r \notin {Xn(w), 15} => cpu'.V[r] = cpu.V[r]]_vars

(* An 8XY5 has run on 0x05 - 0x0A: V[X] wrapped to 0xFB and VF holds 0, a  *)
(* borrow                                                                 *)
C11_Witness ==
    /\ status = "running" /\ phase = "present"
    /\ Hi(cpu.opcode) = 8 /\ Nn(cpu.opcode) = 5 /\ Xn(cpu.opcode) = 0
    /\ cpu.V[0] = \hFB /\ cpu.V[2] = \h0A /\ cpu.V[15] = 0

(* C18 as claimed: after 8XY6, V[X] = old V[Y] div 2 and VF = the least-   *)
(* significant bit of old V[Y]; PC advances by 2.                          *)
C18_ShiftRight ==
    [][(Completed /\ Hi(cpu'.opcode) = 8 /\ Nn(cpu'.opcode) = 6) =>
        LET w == cpu'.opcode
            src == cpu.V[Yn(w)]
        IN /\ Xn(w) # 15 => cpu'.V[Xn(w)] = src \div 2
           /\ cpu'.V[15] = src % 2
           /\ cpu'.pc = cpu.pc + 2]_vars

---------------------------------------------------------------------------
(* Call and return programs.  Subroutine m sits at word 3m: main (m = 0)   *)
(* calls subroutine 1 and then runs its tail word; subroutine m < D calls  *)
(* subroutine m + 1, adds 1 to V0 and returns; subroutine D only returns.  *)

CallDepths == {1, 2, StackSize, StackSize + 1}

NestWord(D, tail, i) ==
    LET m == i \div 3
    IN CASE i = 1 -> tail
         [] i = 2 -> 0
         [] m = D -> WordNNN(0, \h0EE)
         [] i % 3 = 0 -> WordNNN(2, AddrOf(3 * (m + 1)))
         [] i % 3 = 1 -> WordNN(7, 0, 1)
         [] OTHER -> WordNNN(0, \h0EE)

NestProgram(D, tail) == [i \in 1..(3 * D + 1) |-> NestWord(D, tail, i - 1)]

ProgramsStack ==
    {NestProgram(D, tail) :
        <<D, tail>> \in CallDepths \X {WordNNN(1, AddrOf(1)), WordNNN(0, \h0EE)}}

InitStack == \E ws \in ProgramsStack : Boot(ws)

SpecStack == InitStack /\ [][Next]_vars

(* The word emulate_cycle is about to fetch, -1 when the fetch is out of   *)
(* memory                                                                 *)
NextWord == IF cpu.pc + 1 < MemSize THEN fetch(cpu) ELSE -1

(* C2: a 2NNN at PC = A saves A at stack[sp] and raises sp by one; the     *)
(* matching 00EE lowers sp to the value before the call and leaves         *)
(* PC = A + 2; no other instruction touches the stack, so nested calls     *)
(* return last-in-first-out: the return of subroutine m resumes right      *)
(* after the call in subroutine m - 1, with m - 1 addresses left stacked.  *)
C2_CallReturn ==
    [][Completed =>
        LET w == cpu'.opcode
            m == ((cpu.pc - ProgramBase) \div 2) \div 3
        IN CASE Hi(w) = 2 ->
                  /\ cpu'.stack = [cpu.stack EXCEPT ![cpu.sp] = cpu.pc]
                  /\ cpu'.sp = cpu.sp + 1
                  /\ cpu'.pc = w % 4096
                  /\ cpu.sp = m
             [] w = \h00EE ->
                  /\ cpu'.stack = cpu.stack
                  /\ cpu'.sp = cpu.sp - 1
                  /\ cpu'.pc = cpu.stack[cpu.sp - 1] + 2
                  /\ cpu'.pc = AddrOf(3 * (m - 1)) + 2
                  /\ cpu'.sp = m - 1
             [] OTHER ->
                  /\ cpu'.stack = cpu.stack
                  /\ cpu'.sp = cpu.sp]_vars

(* Sixteen nested calls have all returned: main runs its tail with an empty *)
(* stack and V0 counts the fifteen subroutines that were resumed           *)
C2_Witness ==
    /\ status = "running"
    /\ cpu.pc = AddrOf(1) /\ cpu.sp = 0
    /\ cpu.opcode = \h00EE
    /\ cpu.V[0] = StackSize - 1
    /\ cpu.stack[StackSize - 1] = AddrOf(3 * (StackSize - 1))

(* C3: the stack pointer of a live machine is within 0..16; a 2NNN with 16 *)
(* addresses stacked ends fatally and leaves all 16 entries as they were;  *)
(* a 00EE on an empty stack ends fatally and never goes on running.        *)
C3_StackBounds ==
    [][/\ status' = "running" => cpu'.sp \in 0..StackSize
       /\ (status = "running" /\ phase = "cycle" /\ Hi(NextWord) = 2
              /\ cpu.sp = StackSize) =>
            status' = "panic" /\ cpu'.stack = cpu.stack
       /\ (status = "running" /\ phase = "cycle" /\ NextWord = \h00EE
              /\ cpu.sp = 0) =>
            status' = "panic"]_vars

(* The seventeenth nested call has failed: the machine is dead with all    *)
(* sixteen return addresses still in place                                *)
C3_Witness ==
    /\ status = "panic" /\ phase = "cycle"
    /\ Hi(cpu.opcode) = 2 /\ cpu.pc = AddrOf(3 * StackSize)
    /\ cpu.sp = StackSize
    /\ \A i \in 0..(StackSize - 1) : cpu.stack[i] = AddrOf(3 * i)

---------------------------------------------------------------------------
(* Key programs: one register load, one EX9E or EXA1, and a jump to itself *)
(* at each of the two places the skip can land                            *)

KeyRegs == {1, 5}

KeyBytes == {1, 5, 255}

ProgramsKey ==
    {<<WordNN(6, X, a), WordNN(14, X, nn), WordNNN(1, AddrOf(2)),
       WordNNN(1, AddrOf(3))>> :
        <<X, a, nn>> \in KeyRegs \X KeyBytes \X {\h9E, \hA1}}

InitKey == \E ws \in ProgramsKey : Boot(ws)

SpecKey == InitKey /\ [][Next]_vars

(* C5 as claimed: EX9E advances PC by 4 exactly when the key latch equals  *)
(* the value held in V[X] and by 2 otherwise; EXA1 advances PC by 4       *)
(* exactly when the latch differs from that value and by 2 otherwise.     *)
C5_KeySkipOnValue ==
    [][(Completed /\ Hi(cpu'.opcode) = 14 /\ cpu'.opcode % 256 \in {\h9E, \hA1}) =>
        LET w == cpu'.opcode
            pressed == cpu.k = cpu.V[Xn(w)]
            taken == IF w % 256 = \h9E THEN pressed ELSE ~pressed
        IN cpu'.pc = cpu.pc + (IF taken THEN 4 ELSE 2)]_vars

---------------------------------------------------------------------------
(* One of every kind of instruction word, after two register loads, with   *)
(* a jump to itself at each place the word can leave the PC               *)

MixBytes == {<<5, 5>>, <<5, 10>>, <<255, 1>>}

MixWords ==
    {\h00E0, \h00EE, \h0123, \h01E0, \h01EE,
     WordNNN(1, AddrOf(4)), WordNNN(2, AddrOf(4)),
     \h3105, \h4105, \h5120, \h5121, \h6133, \h71FF,
     \h8120, \h8121, \h8122, \h8123, \h8124, \h8125, \h8126, \h8127, \h8128, \h812E,
     \h9120, \h9121, \hA050, WordNNN(11, AddrOf(4)), \hC103, \hD121,
     \hE19E, \hE1A1, \hE1FF,
     \hF107, \hF10A, \hF115, \hF118, \hF11E, \hF129, \hF133, \hF155, \hF165,
     \hF1FF}

ProgramsMix ==
    {<<WordNN(6, 1, v[1]), WordNN(6, 2, v[2]), w, WordNNN(1, AddrOf(3)),
       WordNNN(1, AddrOf(4))>> :
        <<v, w>> \in MixBytes \X MixWords}

Init == \E ws \in ProgramsMix : Boot(ws)

Spec == Init /\ [][Next]_vars

(* The rows of the instruction table that name an instruction to execute *)
InTable(w) ==
    CASE Hi(w) = 0 -> w \in {\h00E0, \h00EE}
      [] Hi(w) \in {5, 9} -> Nn(w) = 0
      [] Hi(w) = 8 -> Nn(w) \in {0, 1, 2, 3, 4, 5, 6, 7, 14}
      [] Hi(w) = 14 -> w % 256 \in {\h9E, \hA1}
      [] Hi(w) = 15 -> w % 256 \in {\h07, \h0A, \h15, \h18, \h1E, \h29, \h33,
                                     \h55, \h65}
      [] OTHER -> TRUE

(* The branches: 1NNN, 2NNN, 00EE, BNNN *)
IsBranch(w) == Hi(w) \in {1, 2, 11} \/ w = \h00EE

(* The condition of a conditional skip, on the machine c about to run w *)
SkipTaken(c, w) ==
    CASE Hi(w) = 3 -> c.V[Xn(w)] = w % 256
      [] Hi(w) = 4 -> c.V[Xn(w)] # w % 256
      [] Hi(w) = 5 -> c.V[Xn(w)] = c.V[Yn(w)]
      [] Hi(w) = 9 -> c.V[Xn(w)] # c.V[Yn(w)]
      [] Hi(w) = 14 /\ w % 256 = \h9E -> c.k = c.V[Xn(w)]
      [] Hi(w) = 14 /\ w % 256 = \hA1 -> c.k # c.V[Xn(w)]
      [] OTHER -> FALSE

(* C1 as claimed: a completed step on an instruction that is not a branch  *)
(* leaves PC = old PC + 2, except that a conditional skip whose condition  *)
(* holds leaves PC = old PC + 4.                                          *)
C1_PcAdvance ==
    [][(Completed /\ InTable(cpu'.opcode) /\ ~IsBranch(cpu'.opcode)) =>
        cpu'.pc = cpu.pc + (IF SkipTaken(cpu, cpu'.opcode) THEN 4 ELSE 2)]_vars

(* C15: no instruction changes the delay timer except FX15, which sets it  *)
(* to V[X], and none changes the sound timer except FX18; the tick of main *)
(* lowers a non-zero timer by exactly 1 and leaves a timer at 0 alone; no  *)
(* other step touches them, and they stay within 0..255.                   *)
C15_TimersOnlyByTick ==
    [][LET w == cpu'.opcode
           sets(nn) == /\ status = "running" /\ phase = "cycle"
                       /\ Completed /\ Hi(w) = 15 /\ w % 256 = nn
           ticks == status = "running" /\ phase = "tick"
           lowered(t) == IF t > 0 THEN t - 1 ELSE 0
       IN /\ cpu'.delay_timer =
                (CASE sets(\h15) -> cpu.V[Xn(w)]
                   [] ticks -> lowered(cpu.delay_timer)
                   [] OTHER -> cpu.delay_timer)
          /\ cpu'.sound_timer =
                (CASE sets(\h18) -> cpu.V[Xn(w)]
                   [] ticks -> lowered(cpu.sound_timer)
                   [] OTHER -> cpu.sound_timer)
          /\ cpu'.delay_timer \in 0..255
          /\ cpu'.sound_timer \in 0..255]_vars

(* F115 has set the delay timer to 5, five ticks have brought it to 0 and  *)
(* a further tick has left it there                                       *)
C15_Witness ==
    /\ status = "running" /\ phase = "poll"
    /\ fetch([cpu EXCEPT !.pc = AddrOf(2)]) = \hF115
    /\ cpu.V[1] = 5 /\ cpu.pc = AddrOf(3)
    /\ cpu.delay_timer = 0 /\ cpu.sound_timer = 0
    /\ cpu.k = \hFF

(* emulate_cycle is about to fetch a word that lies inside memory *)
AboutToRun == status = "running" /\ phase = "cycle" /\ cpu.pc + 1 < MemSize

(* C16 as claimed: a step on a word of the instruction table never ends    *)
(* in the unsupported-opcode exit; 5XY0 skips when V[X] = V[Y]; 8XY7 sets  *)
(* V[X] to V[Y] - V[X] mod 256 with VF = 1 iff V[Y] >= V[X]; 8XYE shifts   *)
(* left with VF = the old most-significant bit; BNNN sets PC to NNN + V[0]. *)
C16_TableIsTotal ==
    [][(AboutToRun /\ InTable(NextWord)) =>
          LET w == NextWord
              a == cpu.V[Xn(w)]
              b == cpu.V[Yn(w)]
          IN /\ status' # "exit"
             /\ Hi(w) = 5 => cpu'.pc = cpu.pc + (IF a = b THEN 4 ELSE 2)
             /\ (Hi(w) = 8 /\ Nn(w) = 7) =>
                   /\ cpu'.V[Xn(w)] = (b - a + 256) % 256
                   /\ Xn(w) # 15 => cpu'.V[15] = (IF b >= a THEN 1 ELSE 0)
             /\ (Hi(w) = 8 /\ Nn(w) = 14 /\ Xn(w) # 15) =>
                   cpu'.V[15] = cpu.V[Xn(w)] \div 128
             /\ Hi(w) = 11 => cpu'.pc = (w % 4096) + cpu.V[0]]_vars

(* C17 as claimed: a step on a word outside the instruction table ends in  *)
(* the unsupported-opcode exit and applies no instruction: the display,    *)
(* the stack, the registers, I, PC and the timers stay as they were.  So   *)
(* 0x0NNN other than 0x00E0 and 0x00EE neither clears the display nor      *)
(* pops the stack, and 9XYN with N not 0 does not skip.                    *)
C17_UnknownWordsFail ==
    [][(AboutToRun /\ ~InTable(NextWord)) =>
          /\ status' = "exit"
          /\ cpu' = [cpu EXCEPT !.opcode = NextWord]]_vars

---------------------------------------------------------------------------
(* Font programs: a digit loaded into a register, FX29, a jump to itself;  *)
(* and the program that draws glyph 5                                     *)

FontRegs == {0, 3}

ProgramsFX29 ==
    {<<WordNN(6, X, d), WordNN(15, X, \h29), WordNNN(1, AddrOf(2))>> :
        <<X, d>> \in FontRegs \X (0..15)}

GlyphProgram == <<\h6005, \hA000, \hF029, \hD015, WordNNN(1, AddrOf(4))>>

InitFont == \E ws \in ProgramsFX29 \cup {GlyphProgram} : Boot(ws)

SpecFont == InitFont /\ [][Next]_vars

(* C6 as claimed: with a digit d in 0..15 in V[X], FX29 sets I to          *)
(* font_base + 5 * d, so that memory cells I..I+4 hold the five bitmap     *)
(* bytes of glyph d.                                                       *)
C6_FontAddress ==
    [][(Completed /\ Hi(cpu'.opcode) = 15 /\ cpu'.opcode % 256 = \h29
            /\ cpu.V[Xn(cpu'.opcode)] \in 0..15) =>
        LET d == cpu.V[Xn(cpu'.opcode)]
        IN /\ cpu'.I = start_loc + 5 * d
           /\ \A r \in 0..4 : cpu'.memory[cpu'.I + r] = chip8_fontset[5 * d + r + 1]]_vars

(* The memory holds the glyph-5 program where initialize loaded it *)
GlyphLoaded ==
    \A b \in 1..(2 * Len(GlyphProgram)) :
        cpu.memory[ProgramBase + b - 1] = FileBytes(GlyphProgram)[b]

(* C7 as claimed: once the glyph-5 program reaches its jump-to-self, the   *)
(* only set pixels of the display are columns 5..8 of row 5 (the top row   *)
(* 0xF0 of glyph 5), and it stays so.                                     *)
C7_GlyphTopRow ==
    (status = "running" /\ GlyphLoaded /\ cpu.pc = AddrOf(4)) =>
        \A i \in DOMAIN cpu.gfx :
            cpu.gfx[i] = (IF i \in (5 * width + 5)..(5 * width + 8) THEN 1 ELSE 0)

---------------------------------------------------------------------------
(* Draw programs: two register loads, a background sprite (glyph 0, five   *)
(* rows or none) and then the same DXYN three times, all at (V[X], V[Y])   *)

DrawRegs == {<<1, 2>>, <<15, 2>>}

DrawCoords ==
    {<<0, 0>>, <<5, 5>>, <<56, 27>>, <<61, 0>>, <<70, 3>>, <<5, 30>>, <<255, 255>>}

DrawSprites == {<<\h050, 1>>, <<\h050, 5>>, <<\h055, 5>>, <<\h000, 5>>}

DrawProgram(r, xy, back, spr) ==
    <<WordNN(6, r[1], xy[1]), WordNN(6, r[2], xy[2]),
      WordNNN(10, \h050), Word(13, r[1], r[2], back),
      WordNNN(10, spr[1]), Word(13, r[1], r[2], spr[2]),
      Word(13, r[1], r[2], spr[2]), Word(13, r[1], r[2], spr[2]),
      WordNNN(1, AddrOf(8))>>

ProgramsDraw ==
    {DrawProgram(r, xy, back, spr) :
        <<r, xy, back, spr>> \in DrawRegs \X DrawCoords \X {0, 5} \X DrawSprites}

InitDraw == \E ws \in ProgramsDraw : Boot(ws)

SpecDraw == InitDraw /\ [][Next]_vars

(* Bit b (0 is the most significant) of row r of the sprite at c.I is set *)
SpriteBit(c, r, b) == (c.memory[c.I + r] \div (2 ^ (7 - b))) % 2 = 1

(* The set bits <<r, b>> of the n-row sprite at c.I *)
SpriteBits(c, n) ==
    {rb \in (0..(n - 1)) \X (0..7) : SpriteBit(c, rb[1], rb[2])}

(* The pixel index of column col, row row *)
PixelAt(col, row) == row * width + col

(* C9 as claimed: DXYN toggles, for each set bit b of sprite row r, the    *)
(* pixel at column (V[X] + b) mod 64, row (V[Y] + r) mod 32 and no other   *)
(* pixel, and the draw never fails.                                       *)
C9_DrawWraps ==
    [][(status = "running" /\ phase = "cycle" /\ Hi(NextWord) = 13
            /\ cpu.I + Nn(NextWord) <= MemSize) =>
        LET w == NextWord
            toggled == {PixelAt((cpu.V[Xn(w)] + rb[2]) % width,
                                (cpu.V[Yn(w)] + rb[1]) % height) :
                            rb \in SpriteBits(cpu, Nn(w))}
        IN /\ status' = "running"
           /\ cpu'.gfx = [p \in DOMAIN cpu.gfx |->
                            IF p \in toggled THEN 1 - cpu.gfx[p] ELSE cpu.gfx[p]]]_vars

(* The machine is about to run a DXYN that is followed by the same word,   *)
(* on a sprite with a set bit whose set bits all lie inside the buffer     *)
DrawPairAhead ==
    /\ status = "running" /\ phase = "cycle"
    /\ cpu.pc + 3 < MemSize
    /\ Hi(NextWord) = 13
    /\ NextWord = fetch([cpu EXCEPT !.pc = cpu.pc + 2])
    /\ cpu.I + Nn(NextWord) <= MemSize
    /\ SpriteBits(cpu, Nn(NextWord)) # {}
    /\ \A rb \in SpriteBits(cpu, Nn(NextWord)) :
          /\ cpu.V[Xn(NextWord)] + rb[2] < width
          /\ cpu.V[Yn(NextWord)] + rb[1] < height

(* The pixels the sprite's set bits land on, inside the buffer *)
Landing(c, w) ==
    {PixelAt(c.V[Xn(w)] + rb[2], c.V[Yn(w)] + rb[1]) : rb \in SpriteBits(c, Nn(w))}

(* The first draw of the pair completes with VF = 1 exactly when a set     *)
(* bit lands on a lit pixel                                               *)
FirstDrawFlag ==
    \A r1 \in emulate_cycle(cpu) :
        /\ r1.st = "running"
        /\ r1.cpu.V[15] = (IF \E p \in Landing(cpu, NextWord) : cpu.gfx[p] = 1
                           THEN 1 ELSE 0)

(* The outcomes of the second draw, when it runs on the same V[X], V[Y] *)
SecondDraw ==
    UNION {emulate_cycle(r1.cpu) :
            r1 \in {r \in emulate_cycle(cpu) :
                      /\ r.st = "running"
                      /\ r.cpu.V[Xn(NextWord)] = cpu.V[Xn(NextWord)]
                      /\ r.cpu.V[Yn(NextWord)] = cpu.V[Yn(NextWord)]}}

(* C8 as claimed: drawing the same sprite twice restores the display and   *)
(* leaves VF = 1 after the second draw; within one draw VF is 1 exactly    *)
(* when a set bit lands on a pixel that was already 1.                     *)
C8_DrawTwice ==
    DrawPairAhead =>
        /\ FirstDrawFlag
        /\ \A r2 \in SecondDraw :
              /\ r2.st = "running"
              /\ r2.cpu.gfx = cpu.gfx
              /\ r2.cpu.V[15] = 1

(* C8 amended: drawing the same sprite twice restores the display; VF is   *)
(* 1 after the second draw exactly when some set bit landed on a pixel     *)
(* that was 0 before the first draw; within one draw VF is 1 exactly when  *)
(* a set bit lands on a pixel that was already 1.                          *)
C8_DrawTwiceAmended ==
    DrawPairAhead =>
        /\ FirstDrawFlag
        /\ \A r2 \in SecondDraw :
              /\ r2.st = "running"
              /\ r2.cpu.gfx = cpu.gfx
              /\ r2.cpu.V[15] =
                   (IF \E p \in Landing(cpu, NextWord) : cpu.gfx[p] = 0
                    THEN 1 ELSE 0)

(* Glyph 0 has been drawn at (5, 5) over itself and then once more: the    *)
(* second draw of that pair has run, the glyph is back on the display and  *)
(* VF is 0                                                                *)
C8_Witness ==
    /\ status = "running" /\ phase = "present"
    /\ cpu.pc \in {AddrOf(7), AddrOf(8)} /\ Hi(cpu.opcode) = 13
    /\ cpu.I = \h050 /\ cpu.V[1] = 5 /\ cpu.V[2] = 5 /\ Nn(cpu.opcode) = 5
    /\ cpu.V[15] = 0
    /\ \A p \in DOMAIN cpu.gfx :
          cpu.gfx[p] = (IF p \in Landing(cpu, cpu.opcode) THEN 1 ELSE 0)

---------------------------------------------------------------------------
(* Decimal programs: a value loaded into a register, I set, FX33, a jump   *)
(* to itself.  The addresses are free memory, the font, the FX33 word      *)
(* itself, the last three cells of memory and the last two.               *)

BCDRegs == {0, 3, 15}

BCDValues == {0, 7, 42, 100, 199, 255}

BCDAddrs == {\h300, \h050, AddrOf(2), MemSize - 3, MemSize - 2}

ProgramsBCD ==
    {<<WordNN(6, X, v), WordNNN(10, a), WordNN(15, X, \h33), WordNNN(1, AddrOf(3))>> :
        <<X, v, a>> \in BCDRegs \X BCDValues \X BCDAddrs}

InitBCD == \E ws \in ProgramsBCD : Boot(ws)

SpecBCD == InitBCD /\ [][Next]_vars

(* C12: with v in V[X] and I + 2 inside memory, FX33 sets memory[I],       *)
(* memory[I + 1], memory[I + 2] to v div 100, (v div 10) mod 10, v mod 10  *)
(* and leaves I, every register and every other memory cell unchanged.     *)
C12_DecimalDigits ==
    [][(status = "running" /\ phase = "cycle" /\ Hi(NextWord) = 15
            /\ NextWord % 256 = \h33 /\ cpu.I + 2 < MemSize) =>
        LET v == cpu.V[Xn(NextWord)]
        IN /\ Completed
           /\ cpu'.memory = [a \in DOMAIN cpu.memory |->
                               CASE a = cpu.I -> v \div 100
                                 [] a = cpu.I + 1 -> (v \div 10) % 10
                                 [] a = cpu.I + 2 -> v % 10
                                 [] OTHER -> cpu.memory[a]]
           /\ cpu'.I = cpu.I
           /\ cpu'.V = cpu.V]_vars

(* FX33 has run on 255 with I on the last three cells of memory, which now *)
(* hold 2, 5, 5                                                           *)
C12_Witness ==
    /\ status = "running" /\ phase = "present"
    /\ Hi(cpu.opcode) = 15 /\ cpu.opcode % 256 = \h33
    /\ cpu.V[Xn(cpu.opcode)] = 255 /\ cpu.I = MemSize - 3
    /\ cpu.memory[MemSize - 3] = 2
    /\ cpu.memory[MemSize - 2] = 5
    /\ cpu.memory[MemSize - 1] = 5

---------------------------------------------------------------------------
(* Key-wait programs: FX0A as the first word; and a timer set from a       *)
(* register, then FX0A; each followed by a jump to itself                 *)

WaitTimes == {0, 1, 3}

ProgramsWait ==
    {<<WordNN(15, 2, \h0A), WordNNN(1, AddrOf(1))>>} \cup
    {<<WordNN(6, 1, t), WordNN(15, 1, set), WordNN(15, 2, \h0A),
       WordNNN(1, AddrOf(3))>> :
        <<t, set>> \in WaitTimes \X {\h15, \h18}}

InitWait == \E ws \in ProgramsWait : Boot(ws)

SpecWait == InitWait /\ [][Next]_vars

(* The loop of main runs on by itself: each of its four steps is taken     *)
(* once it is due.  Closing the window (Quit) is up to the user.          *)
SpecWaitFair ==
    /\ InitWait /\ [][Next]_vars
    /\ WF_vars(PollKeys) /\ WF_vars(EmulateCycle)
    /\ WF_vars(Present) /\ WF_vars(Tick)

(* A poll that latches the code of a mapped key *)
PollLatchesKey == PollKeys /\ cpu'.k \in 0..15

(* The same loop with a user who presses a mapped key sooner or later: a   *)
(* loop that keeps polling gets to see it                                 *)
SpecWaitKeyFair ==
    /\ InitWait /\ [][Next]_vars
    /\ WF_vars(PollKeys) /\ WF_vars(EmulateCycle)
    /\ WF_vars(Present) /\ WF_vars(Tick)
    /\ SF_vars(PollLatchesKey)

(* emulate_cycle is about to run FX0A with no key latched *)
AtWait ==
    /\ status = "running" /\ phase = "cycle"
    /\ Hi(NextWord) = 15 /\ NextWord % 256 = \h0A
    /\ cpu.k = \hFF

(* FX0A has completed: V[X] holds a key code and PC is past the FX0A word *)
Resumed ==
    /\ status = "running" /\ phase = "present"
    /\ Hi(cpu.opcode) = 15 /\ cpu.opcode % 256 = \h0A
    /\ cpu.V[Xn(cpu.opcode)] \in 0..15
    /\ cpu.pc >= 2 /\ fetch([cpu EXCEPT !.pc = cpu.pc - 2]) = cpu.opcode

(* The process has ended: the user closed the window, or a panic *)
Ended == status \in {"exit", "panic"}

(* C13 as claimed: a step that meets FX0A with no key latched leaves PC    *)
(* and the registers as they are, and once a key is pressed the wait ends  *)
(* with the key's code in V[X] and PC past the FX0A word.                  *)
C13_KeyWait ==
    /\ [][AtWait => (cpu'.pc = cpu.pc /\ cpu'.V = cpu.V)]_vars
    /\ AtWait ~> (Resumed \/ Ended)

(* C14 as claimed: a delay or sound timer that is non-zero when FX0A       *)
(* starts to wait reaches 0, key or no key, as the loop of main goes on    *)
(* ticking.                                                               *)
C14_TimersRunDuringWait ==
    /\ (AtWait /\ cpu.delay_timer > 0) ~> (cpu.delay_timer = 0 \/ Ended)
    /\ (AtWait /\ cpu.sound_timer > 0) ~> (cpu.sound_timer = 0 \/ Ended)

(* The latch values the documented latch may hold after a poll that was    *)
(* reported got: the code of a mapped key that is down, or the sentinel;   *)
(* the sentinel alone when no mapped key is down                          *)
Latchable(got) ==
    {key_code(got.keys[i]) : i \in 1..Len(got.keys)} \cup {\hFF}

(* C20 as claimed: at every call of emulate_cycle, the first one included, *)
(* the key latch holds the code of a key that is down in this iteration    *)
(* or the sentinel 0xFF, and the sentinel when no mapped key is down.      *)
C20_LatchFresh ==
    [][(status = "running" /\ phase = "poll" /\ phase' = "cycle") =>
        \E got \in KeyReports : cpu'.k \in Latchable(got)]_vars

---------------------------------------------------------------------------
(* Jump programs: a jump or a call to an even or an odd address, then a    *)
(* word on V0, a jump to itself and, further on, a return.  Read from the  *)
(* odd address 0x205 the bytes 22 12 are a call of 0x212, made with an odd *)
(* PC.                                                                    *)

JumpTargets == {AddrOf(2), AddrOf(2) + 1, AddrOf(9), AddrOf(9) + 1}

JumpProgram(hi, target, kind) ==
    <<WordNNN(hi, target), WordNNN(1, AddrOf(1)), WordNN(kind, 0, \h22),
      WordNNN(1, AddrOf(3)), 0, 0, 0, 0, 0, \h00EE>>

ProgramsJump ==
    {JumpProgram(hi, target, kind) :
        <<hi, target, kind>> \in {1, 2} \X JumpTargets \X {3, 4, 6}}

InitJump == \E ws \in ProgramsJump : Boot(ws)

SpecJump == InitJump /\ [][Next]_vars

(* C19 as claimed: PC is even in every reachable state. *)
C19_PcEven == cpu.pc % 2 = 0

(* PC and every stacked return address are even *)
Aligned(c) ==
    /\ c.pc % 2 = 0
    /\ \A s \in 0..(StackSize - 1) : s < c.sp => c.stack[s] % 2 = 0

(* The step is a completed 1NNN or 2NNN with an odd NNN *)
OddTransfer ==
    Completed /\ Hi(cpu'.opcode) \in {1, 2} /\ cpu'.opcode % 2 = 1

(* C19 amended: PC is initialized to 0x200, and PC and the stacked return  *)
(* addresses stay even across every step other than a 1NNN or 2NNN with an *)
(* odd target.                                                            *)
C19_PcEvenUnlessOddTarget ==
    /\ cpu.pc = \h200 /\ cpu.sp = 0
    /\ [][(Aligned(cpu) /\ ~OddTransfer) => Aligned(cpu')]_vars

(* A call from 0x200 to the even address 0x212 has returned: PC is 0x202   *)
C19_Witness ==
    /\ status = "running" /\ phase = "present"
    /\ cpu.opcode = \h00EE /\ cpu.sp = 0 /\ cpu.stack[0] = \h200
    /\ cpu.pc = \h202

---------------------------------------------------------------------------
(* Random programs: one CXNN, then a jump to itself *)

RandRegs == {1, 15}

RandMasks == {\h00, \h03, \hF0, \hFF}

ProgramsRand ==
    {<<WordNN(12, X, nn), WordNNN(1, AddrOf(1))>> :
        <<X, nn>> \in RandRegs \X RandMasks}

InitRand == \E ws \in ProgramsRand : Boot(ws)

SpecRand == InitRand /\ [][Next]_vars

(* C21 as claimed: the values CXNN can leave in V[X] are exactly the       *)
(* r AND NN for r in 0..255, so with NN = 0xFF the value 0xFF is one of    *)
(* them; no other register changes and PC advances by 2.                   *)
C21_RandomByte ==
    (AboutToRun /\ Hi(NextWord) = 12) =>
        LET w == NextWord
            outcomes == emulate_cycle(cpu)
        IN /\ {r.cpu.V[Xn(w)] : r \in outcomes} =
                  {BitAnd(r, w % 256) : r \in 0..255}
           /\ \A r \in outcomes :
                 /\ r.st = "running"
                 /\ r.cpu.pc = cpu.pc + 2
                 /\ \A v \in 0..15 : v # Xn(w) => r.cpu.V[v] = cpu.V[v]

=============================================================================
